---------------------------- MODULE Spec2Model ----------------------------
(***************************************************************************)
(* A model of the BOLD-to-anatomical registration helpers of nibabies:     *)
(*   - compare_xforms: the displacement between two affines and the        *)
(*     fallback decision (nibabies/workflows/bold/registration.py);        *)
(*   - init_bbreg_wf / init_fsl_bbr_wf: the graphs the builders wire and   *)
(*     the data that flows through them when the graph is run;             *)
(*   - _conditional_downsampling: the sloppy-mode resampler.               *)
(*                                                                         *)
(* Lengths are exact integers.  A Euclidean norm is kept as its square, so *)
(* that "norm > threshold" is decided without a square root.               *)
(***************************************************************************)
EXTENDS Integers, Sequences, FiniteSets, TLC

VARIABLES
    \* ---- compare_xforms, called directly
    lta_list,        \* the two transform files handed to compare_xforms
    norm_threshold,  \* <<>> when the caller omits the argument, else <<thr>>
    rigid,           \* a rigid transform used to move both affines together
    cmp,             \* outcome of compare_xforms(lta_list, norm_threshold)
    cmp_moved,       \* outcome of the call on (rigid.refined, rigid.baseline)
    \* ---- init_bbreg_wf / init_fsl_bbr_wf and the run of the graph built
    wf_args,         \* the arguments of the builder
    wf,              \* what the builder returned: the graph, or the exception
    ran,             \* the nodes of the graph that have run
    out,             \* the value on each output port of the nodes that ran
    \* ---- _conditional_downsampling
    ds_args,         \* in_file, in_mask and zoom_th (<<>> when omitted) of the call
    cwd,             \* the working directory of the process
    fs,              \* the file system: the image at each path
    fs_before,       \* the file system when the call began
    ds,              \* the call: where it stands, its locals, what it returned
    other,           \* a second invocation, by another process
    \* ---- MCRIBReconAll._setup_directory_structure
    mc_inputs,       \* self.inputs: subject_id, t2w_file, segmentation_file, ...
    tree,            \* what is at each path under mcribs_dir
    mc,              \* the call: where it stands and the exception it raised
    \* ---- parse_roi_labels
    label_file,      \* the label file: whether it is there, and its text
    roi              \* the call: where it stands, what it returned or raised

cmpVars == <<lta_list, norm_threshold, rigid, cmp, cmp_moved>>

wfVars == <<wf_args, wf, ran, out>>

dsVars == <<ds_args, cwd, fs, fs_before, ds, other>>

mcVars == <<mc_inputs, tree, mc>>

roiVars == <<label_file, roi>>

vars == <<lta_list, norm_threshold, rigid, cmp, cmp_moved, wf_args, wf, ran, out,
          ds_args, cwd, fs, fs_before, ds, other, mc_inputs, tree, mc,
          label_file, roi>>

-----------------------------------------------------------------------------
(* Small helpers                                                           *)

SetMax(S) == CHOOSE x \in S : \A y \in S : y <= x

Sq(x) == x * x

-----------------------------------------------------------------------------
(* Affines and transform files                                             *)

\* A 4x4 affine from its 3x3 block (rows) and its translation.
Affine(m, t) ==
    << <<m[1][1], m[1][2], m[1][3], t[1]>>,
       <<m[2][1], m[2][2], m[2][3], t[2]>>,
       <<m[3][1], m[3][2], m[3][3], t[3]>>,
       <<0, 0, 0, 1>> >>

Eye3 == << <<1, 0, 0>>, <<0, 1, 0>>, <<0, 0, 1>> >>
RotZ == << <<0, -1, 0>>, <<1, 0, 0>>, <<0, 0, 1>> >>   \* 90 degrees about z
RotX == << <<1, 0, 0>>, <<0, 0, -1>>, <<0, 1, 0>> >>   \* 90 degrees about x
Scale2 == << <<2, 0, 0>>, <<0, 1, 0>>, <<0, 0, 1>> >>
Flat == << <<1, 0, 0>>, <<0, 1, 0>>, <<0, 0, 0>> >>    \* determinant 0
Zero3 == << <<0, 0, 0>>, <<0, 0, 0>>, <<0, 0, 0>> >>   \* determinant 0

Det3(m) ==
      m[1][1] * (m[2][2] * m[3][3] - m[2][3] * m[3][2])
    - m[1][2] * (m[2][1] * m[3][3] - m[2][3] * m[3][1])
    + m[1][3] * (m[2][1] * m[3][2] - m[2][2] * m[3][1])

\* The content of a transform file: the rows of numbers it holds, each
\* number being rows[r][c] / den, and the positions (row, column) whose
\* number is NaN.
Matrix(rows, nan) == [rows |-> rows, nan |-> nan, den |-> 1]

\* A transform file: its extension, its content, and who wrote it.
File(ext, mat) == [ext |-> ext, mat |-> mat, by |-> "caller"]

Lta(m, t) == File("lta", Matrix(Affine(m, t), {}))

-----------------------------------------------------------------------------
(* load_transform (niworkflows), as compare_xforms uses it                 *)

FirstRows(rows, n) == SubSeq(rows, 1, IF Len(rows) < n THEN Len(rows) ELSE n)

\* A loader that refuses a 4x4 matrix whose 3x3 block is not invertible.
load_transform_checked(fname) ==
    IF fname.ext \in {"mat", "lta"} /\ Len(fname.mat.rows) = 4
       /\ (\A r \in 1 .. 4 : Len(fname.mat.rows[r]) = 4) /\ Det3(fname.mat.rows) = 0
    THEN [err |-> "InvalidTransformError", mat |-> Matrix(<<>>, {})]
    ELSE [err |-> "none", mat |-> fname.mat]

\* A ".mat" file is read whole; an ".lta" file gives the (at most) four
\* lines that follow its "1 4 4" line; any other name is a ValueError.
\* Nothing about the numbers read is checked.
load_transform(fname) ==
    IF fname.ext = "mat"
    THEN [err |-> "none", mat |-> fname.mat]
    ELSE IF fname.ext = "lta"
    THEN [err |-> "none",
          mat |-> [fname.mat EXCEPT !.rows = FirstRows(@, 4),
                                    !.nan = {p \in @ : p[1] <= 4}]]
    ELSE [err |-> "ValueError", mat |-> Matrix(<<>>, {})]

-----------------------------------------------------------------------------
(* _calc_norm_affine (nipype.algorithms.rapidart), use_differences=True,   *)
(* brain_pts=None                                                          *)

\* The six points the norm is taken over, one per column, homogeneous:
\* the midpoints of the faces of the box x in [-70,70], y in [-110,70],
\* z in [-45,75] (mm).
all_pts ==
    << <<70, 0, 0, -70, 0, 0>>,
       <<0, 70, 0, 0, -110, 0>>,
       <<0, 0, 75, 0, 0, -45>>,
       <<1, 1, 1, 1, 1, 1>> >>

Points == 1 .. 6

\* np.dot(affine, all_pts) needs four columns in the affine.
DotOk(mat) == Len(mat.rows) > 0 /\ \A r \in 1 .. Len(mat.rows) : Len(mat.rows[r]) = 4

\* newpos[i, :] = np.dot(affine, all_pts)[0:3, :].ravel() needs three rows.
ShapeOk(mat) == DotOk(mat) /\ Len(mat.rows) >= 3

\* Entry (r, k) of np.dot(affine, all_pts), times mat.den, where finite ...
Dot(mat, r, k) ==
      mat.rows[r][1] * all_pts[1][k] + mat.rows[r][2] * all_pts[2][k]
    + mat.rows[r][3] * all_pts[3][k] + mat.rows[r][4] * all_pts[4][k]

\* ... and whether it is NaN: every entry of row r takes part in the sum,
\* and NaN times anything (0 included) is NaN.
DotNaN(mat, r) == \E c \in 1 .. 4 : <<r, c>> \in mat.nan

\* A sum where the difference is meant.
DiffAsSum(first, second, r, k) ==
    Dot(second, r, k) * first.den + Dot(first, r, k) * second.den

\* np.diff(newpos): the second affine's position minus the first's, times
\* first.den * second.den.
Diff(first, second, r, k) ==
    Dot(second, r, k) * first.den - Dot(first, r, k) * second.den

Abs(x) == IF x < 0 THEN -x ELSE x

\* A city-block distance in place of the Euclidean one.
PointSqTaxicab(first, second, k) ==
    Sq(Abs(Diff(first, second, 1, k)) + Abs(Diff(first, second, 2, k))
     + Abs(Diff(first, second, 3, k)))

\* A norm that forgets the third coordinate.
PointSqPlanar(first, second, k) ==
    Sq(Diff(first, second, 1, k)) + Sq(Diff(first, second, 2, k))

\* The squared Euclidean distance point k moves between the two affines,
\* times (first.den * second.den)^2.
PointSq(first, second, k) ==
    Sq(Diff(first, second, 1, k)) + Sq(Diff(first, second, 2, k))
  + Sq(Diff(first, second, 3, k))

\* A mean over the six points in place of the maximum.
MeanOfPoints(first, second) ==
    (PointSq(first, second, 1) + PointSq(first, second, 2)
   + PointSq(first, second, 3) + PointSq(first, second, 4)
   + PointSq(first, second, 5) + PointSq(first, second, 6)) \div 6

\* np.max over the six points.
MaxOfPoints(first, second) == SetMax({PointSq(first, second, k) : k \in Points})

NoNorm == [err |-> "none", nan |-> FALSE, sq |-> 0, den |-> 1]

\* normdata[1] for affines = [first, second]: a ValueError when a shape
\* does not fit, NaN when a NaN entered the sum, else the norm, whose
\* square is sq / den^2.
calc_norm_affine(first, second) ==
    IF ~(ShapeOk(first) /\ ShapeOk(second))
    THEN [NoNorm EXCEPT !.err = "ValueError"]
    ELSE IF \E r \in 1 .. 3 : DotNaN(first, r) \/ DotNaN(second, r)
    THEN [NoNorm EXCEPT !.nan = TRUE]
    ELSE [err |-> "none", nan |-> FALSE, sq |-> MaxOfPoints(first, second),
          den |-> first.den * second.den]

-----------------------------------------------------------------------------
(* compare_xforms                                                          *)

DefaultNormThreshold == 15

\* A comparison that also accepts equality.
NormGeq(norm, thr) ==
    IF norm.nan THEN FALSE
    ELSE IF thr <= 0 THEN TRUE
    ELSE norm.sq >= Sq(thr) * Sq(norm.den)

\* norm[1] > norm_threshold, the norm known by its square.  A comparison
\* with NaN is False.
NormGt(norm, thr) ==
    IF norm.nan THEN FALSE
    ELSE IF thr < 0 THEN TRUE
    ELSE norm.sq > Sq(thr) * Sq(norm.den)

NoCall == [state |-> "idle", err |-> "none", out |-> FALSE, norm |-> NoNorm]

\* norm_threshold=15 in the signature.
ThresholdOf(thrArg) == IF thrArg = <<>> THEN DefaultNormThreshold ELSE thrArg[1]

\* compare_xforms(lta_list, norm_threshold=15): the value returned, or the
\* exception that leaves it.
compare_xforms(list, thrArg) ==
    LET bbr_affine == load_transform(list[1])
        fallback_affine == load_transform(list[2])
    IN  IF bbr_affine.err # "none" \/ fallback_affine.err # "none"
        THEN [NoCall EXCEPT !.state = "raised",
                            !.err = IF bbr_affine.err # "none" THEN bbr_affine.err
                                    ELSE fallback_affine.err]
        ELSE LET norm == calc_norm_affine(fallback_affine.mat, bbr_affine.mat)
             IN  IF norm.err # "none"
                 THEN [NoCall EXCEPT !.state = "raised", !.err = norm.err]
                 ELSE [state |-> "returned", err |-> "none",
                       out |-> NormGt(norm, ThresholdOf(thrArg)),
                       norm |-> norm]

-----------------------------------------------------------------------------
(* The graphs init_bbreg_wf and init_fsl_bbr_wf build                      *)

\* An edge of workflow.connect: (source node, its output, node, its input).
Edge(a, af, b, bf) == <<a, af, b, bf>>

\* A set of initialisations that lets any name through.
RegistrationInitWide == {"t1w", "t2w", "header", "auto"}

\* ty.get_args(RegistrationInit)
RegistrationInit == {"t1w", "t2w", "header"}

\* The keys of {6: 'six', 9: 'nine', 12: 'twelve'}
AffineDOF == {6, 9, 12}

NoGraph == [state |-> "unbuilt", err |-> "none", edges |-> {}, fixed |-> {}]

Raised(err) == [NoGraph EXCEPT !.state = "raised", !.err = err]

Built(edges, fixed) == [state |-> "built", err |-> "none", edges |-> edges, fixed |-> fixed]

\* ---- init_bbreg_wf

BbregBase ==
    { Edge("inputnode", "fsnative2anat_xfm", "merge_ltas", "in2"),
      Edge("transforms", "out", "select_transform", "inlist"),
      Edge("select_transform", "out", "merge_ltas", "in1"),
      Edge("merge_ltas", "out", "concat_xfm", "in_xfms"),
      Edge("concat_xfm", "out_xfm", "outputnode", "itk_bold_to_t1"),
      Edge("concat_xfm", "out_inv", "outputnode", "itk_t1_to_bold") }

BbregCoreg ==
    { Edge("inputnode", "subjects_dir", "mri_coreg", "subjects_dir"),
      Edge("inputnode", "subject_id", "mri_coreg", "subject_id"),
      Edge("inputnode", "in_file", "mri_coreg", "source_file"),
      Edge("mri_coreg", "out_lta_file", "transforms", "in2") }

BbregT2w ==
    { Edge("inputnode", "subjects_dir", "fssource", "subjects_dir"),
      Edge("inputnode", "subject_id", "fssource", "subject_id"),
      Edge("fssource", "T2", "mri_coreg", "reference_file") }

\* A bbregister that is given no initial registration.
BbregUnseeded == {}

BbregSeed == { Edge("mri_coreg", "out_lta_file", "bbregister", "init_reg_file") }

\* A bbregister wired to mri_coreg whatever the initialisation.
BbregBbrSeeded ==
    { Edge("inputnode", "subjects_dir", "bbregister", "subjects_dir"),
      Edge("inputnode", "subject_id", "bbregister", "subject_id"),
      Edge("inputnode", "in_file", "bbregister", "source_file"),
      Edge("bbregister", "out_lta_file", "transforms", "in1"),
      Edge("mri_coreg", "out_lta_file", "bbregister", "init_reg_file") }

BbregBbr ==
    { Edge("inputnode", "subjects_dir", "bbregister", "subjects_dir"),
      Edge("inputnode", "subject_id", "bbregister", "subject_id"),
      Edge("inputnode", "in_file", "bbregister", "source_file"),
      Edge("bbregister", "out_lta_file", "transforms", "in1") }

BbregCompare ==
    { Edge("transforms", "out", "compare_transforms", "lta_list"),
      Edge("compare_transforms", "out", "outputnode", "fallback"),
      Edge("compare_transforms", "out", "select_transform", "index") }

\* A fixed input of a node: (node, input, value).
Fixed(n, f, v) == <<n, f, v>>

init_bbreg_wf(args) ==
    LET use_t2w == args.bold2anat_init = "t2w"
        header == args.bold2anat_init = "header"
        \* use_bbr after lines 503-508
        use_bbr == IF header /\ args.use_bbr = "None" THEN "True" ELSE args.use_bbr
        fixed0 == { Fixed("select_transform", "index", "0") }
                  \cup (IF use_t2w THEN { Fixed("mri_coreg", "reference_mask", "False") } ELSE {})
                  \cup (IF header THEN { Fixed("bbregister", "init", "header") } ELSE {})
        edges0 == BbregBase
                  \cup (IF ~header THEN BbregCoreg ELSE {})
                  \cup (IF ~header /\ use_t2w THEN BbregT2w ELSE {})
        \* line 575 is inside the block of line 553
        edges1 == edges0 \cup (IF ~header THEN BbregSeed ELSE {}) \cup BbregBbr
    IN  IF args.bold2anat_dof \notin AffineDOF THEN Raised("KeyError")
        ELSE IF args.bold2anat_init \notin RegistrationInit THEN Raised("ValueError")
        ELSE IF header /\ args.use_bbr = "False" THEN Raised("ValueError")
        ELSE IF ~header /\ use_bbr = "False"
        THEN Built(edges0, fixed0 \cup { Fixed("outputnode", "fallback", "True") })
        ELSE IF use_bbr = "True"
        THEN Built(edges1, fixed0 \cup { Fixed("outputnode", "fallback", "False") })
        ELSE Built(edges1 \cup BbregCompare, fixed0)

\* ---- init_fsl_bbr_wf

FslBase ==
    { Edge("inputnode", "t1w_preproc", "mask_t1w_brain", "in_file"),
      Edge("inputnode", "t1w_mask", "mask_t1w_brain", "in_mask"),
      Edge("inputnode", "in_file", "mri_coreg", "source_file"),
      Edge("inputnode", "in_file", "fsl2itk_fwd", "source_file"),
      Edge("inputnode", "in_file", "fsl2itk_inv", "reference_file"),
      Edge("mask_t1w_brain", "out_file", "mri_coreg", "reference_file"),
      Edge("mask_t1w_brain", "out_file", "fsl2itk_fwd", "reference_file"),
      Edge("mask_t1w_brain", "out_file", "fsl2itk_inv", "source_file"),
      Edge("mri_coreg", "out_lta_file", "lta_to_fsl", "in_lta"),
      Edge("invt_bbr", "out_file", "fsl2itk_inv", "transform_file"),
      Edge("fsl2itk_fwd", "itk_transform", "outputnode", "itk_bold_to_t1"),
      Edge("fsl2itk_inv", "itk_transform", "outputnode", "itk_t1_to_bold") }

\* A rigid branch that takes the transform of flt_bbr.
FslRigidViaBbr ==
    { Edge("flt_bbr", "out_matrix_file", "invt_bbr", "in_file"),
      Edge("flt_bbr", "out_matrix_file", "fsl2itk_fwd", "transform_file") }

FslRigid ==
    { Edge("lta_to_fsl", "out_fsl", "invt_bbr", "in_file"),
      Edge("lta_to_fsl", "out_fsl", "fsl2itk_fwd", "transform_file") }

FslBbr ==
    { Edge("inputnode", "t1w_dseg", "wm_mask", "in_seg"),
      Edge("inputnode", "in_file", "flt_bbr", "in_file"),
      Edge("lta_to_fsl", "out_fsl", "flt_bbr", "in_matrix_file") }

\* The downsampled pair connected on top of the direct one.
FslSloppyOverDirect ==
    { Edge("mask_t1w_brain", "out_file", "downsample", "in_file"),
      Edge("wm_mask", "out", "downsample", "in_mask"),
      Edge("downsample", "out_file", "flt_bbr", "reference"),
      Edge("downsample", "out_mask", "flt_bbr", "wm_seg"),
      Edge("mask_t1w_brain", "out_file", "flt_bbr", "reference"),
      Edge("wm_mask", "out", "flt_bbr", "wm_seg") }

FslSloppy ==
    { Edge("mask_t1w_brain", "out_file", "downsample", "in_file"),
      Edge("wm_mask", "out", "downsample", "in_mask"),
      Edge("downsample", "out_file", "flt_bbr", "reference"),
      Edge("downsample", "out_mask", "flt_bbr", "wm_seg") }

FslFull ==
    { Edge("mask_t1w_brain", "out_file", "flt_bbr", "reference"),
      Edge("wm_mask", "out", "flt_bbr", "wm_seg") }

FslUseBbr ==
    { Edge("flt_bbr", "out_matrix_file", "invt_bbr", "in_file"),
      Edge("flt_bbr", "out_matrix_file", "fsl2itk_fwd", "transform_file") }

\* The two candidates wired the other way round.
FslCandidatesSwapped ==
    { Edge("flt_bbr", "out_matrix_file", "transforms", "in2"),
      Edge("lta_to_fsl", "out_fsl", "transforms", "in1") }

FslCandidates ==
    { Edge("flt_bbr", "out_matrix_file", "transforms", "in1"),
      Edge("lta_to_fsl", "out_fsl", "transforms", "in2") }

FslCompare ==
    { Edge("inputnode", "in_file", "fsl_to_lta", "source_file"),
      Edge("mask_t1w_brain", "out_file", "fsl_to_lta", "target_file"),
      Edge("transforms", "out", "fsl_to_lta", "in_fsl"),
      Edge("fsl_to_lta", "out_lta", "compare_transforms", "lta_list"),
      Edge("compare_transforms", "out", "outputnode", "fallback"),
      Edge("transforms", "out", "select_transform", "inlist"),
      Edge("compare_transforms", "out", "select_transform", "index"),
      Edge("select_transform", "out", "invt_bbr", "in_file"),
      Edge("select_transform", "out", "fsl2itk_fwd", "transform_file") }

init_fsl_bbr_wf(args) ==
    LET fixed0 == { Fixed("wm_mask", "label", "2") }
        fixed1 == fixed0 \cup { Fixed("flt_bbr", "schedule", "bbr.sch") }
        edges1 == FslBase \cup FslBbr
                  \cup (IF args.sloppy THEN FslSloppy ELSE FslFull)
    IN  IF args.bold2anat_dof \notin AffineDOF THEN Raised("KeyError")
        ELSE IF args.bold2anat_init \notin RegistrationInit THEN Raised("ValueError")
        ELSE IF args.bold2anat_init = "header" THEN Raised("NotImplementedError")
        ELSE IF args.use_bbr = "False"
        THEN Built(FslBase \cup FslRigid,
                   fixed0 \cup { Fixed("outputnode", "fallback", "True") })
        ELSE IF args.use_bbr = "True"
        THEN Built(edges1 \cup FslUseBbr,
                   fixed1 \cup { Fixed("outputnode", "fallback", "False") })
        ELSE Built(edges1 \cup FslCandidates \cup FslCompare, fixed1)

\* ---- init_bold_reg_wf

\* The parameters of each builder that have no default.
Required ==
    [init_bbreg_wf |-> {"use_bbr", "bold2anat_dof", "bold2anat_init", "omp_nthreads"},
     init_fsl_bbr_wf |-> {"use_bbr", "bold2anat_dof", "bold2anat_init", "omp_nthreads"}]

\* The keyword arguments of the calls of lines 144-149 and 151-156.
Passed ==
    [init_bbreg_wf |-> {"use_bbr", "bold2anat_dof", "bold2anat_init", "omp_nthreads"},
     init_fsl_bbr_wf |-> {"use_bbr", "bold2anat_dof", "bold2anat_init", "sloppy"}]

\* The fields of the inputnode of init_bold_reg_wf and of each builder's.
BoldRegFields ==
    {"ref_bold_brain", "anat_preproc", "anat_mask", "anat_dseg", "subjects_dir",
     "subject_id", "fsnative2anat_xfm"}

InputFields ==
    [init_bbreg_wf |-> {"in_file", "fsnative2anat_xfm", "subjects_dir", "subject_id",
                        "t1w_preproc", "t1w_mask", "t1w_dseg"},
     init_fsl_bbr_wf |-> {"in_file", "fsnative2t1w_xfm", "subjects_dir", "subject_id",
                          "t1w_preproc", "t1w_mask", "t1w_dseg"}]

\* Lines 160-168: (field of the outer inputnode, field of the inner one).
BoldRegConnect ==
    { <<"ref_bold_brain", "in_file">>, <<"fsnative2anat_xfm", "fsnative2anat_xfm">>,
      <<"subjects_dir", "subjects_dir">>, <<"subject_id", "subject_id">>,
      <<"t1w_preproc", "t1w_preproc">>, <<"t1w_mask", "t1w_mask">>,
      <<"t1w_dseg", "t1w_dseg">> }

\* The connections workflow.connect does not find: the source is no output
\* of the outer inputnode, or the destination no input of the inner one.
NotFound(builder) ==
    { c \in BoldRegConnect : c[1] \notin BoldRegFields \/ c[2] \notin InputFields[builder] }

init_bold_reg_wf(args) ==
    LET builder == IF args.freesurfer THEN "init_bbreg_wf" ELSE "init_fsl_bbr_wf"
        bbr_wf == IF args.freesurfer THEN init_bbreg_wf(args) ELSE init_fsl_bbr_wf(args)
    IN  IF ~(Required[builder] \subseteq Passed[builder]) THEN Raised("TypeError")
        ELSE IF bbr_wf.state = "raised" THEN bbr_wf
        ELSE IF NotFound(builder) # {} THEN Raised("Exception")
        ELSE Built(bbr_wf.edges
                     \cup { Edge("bold_reg_wf.inputnode", c[1], "inputnode", c[2]) :
                            c \in BoldRegConnect }
                     \cup { Edge("outputnode", f, "bold_reg_wf.outputnode", f) :
                            f \in {"itk_bold_to_t1", "itk_t1_to_bold", "fallback"} },
                   bbr_wf.fixed)

\* The nodes of a graph: those workflow.connect was given.
NodesOf(edges) == {e[1] : e \in edges} \cup {e[3] : e \in edges}

AllEdges ==
    BbregBase \cup BbregCoreg \cup BbregT2w \cup BbregSeed \cup BbregBbr \cup BbregCompare
    \cup FslBase \cup FslRigid \cup FslBbr \cup FslSloppy \cup FslFull \cup FslUseBbr
    \cup FslCandidates \cup FslCandidatesSwapped \cup FslCompare

OutputFields == {"itk_bold_to_t1", "itk_t1_to_bold", "fallback"}

\* The output ports there are: (node, output).
Ports == {<<e[1], e[2]>> : e \in AllEdges} \cup {<<"outputnode", f>> : f \in OutputFields}

-----------------------------------------------------------------------------
(* The run of a built graph: what each node puts on its outputs            *)

\* 4x4 matrix product and, for a 3x3 block of determinant 1 or -1, inverse.
Mul4(a, b) ==
    [r \in 1 .. 4 |-> [c \in 1 .. 4 |->
        a[r][1] * b[1][c] + a[r][2] * b[2][c] + a[r][3] * b[3][c] + a[r][4] * b[4][c]]]

Cofactor(m, i, j) ==
    LET r1 == IF i = 1 THEN 2 ELSE 1
        r2 == IF i = 3 THEN 2 ELSE 3
        c1 == IF j = 1 THEN 2 ELSE 1
        c2 == IF j = 3 THEN 2 ELSE 3
        sign == IF (i + j) % 2 = 0 THEN 1 ELSE -1
    IN  sign * (m[r1][c1] * m[r2][c2] - m[r1][c2] * m[r2][c1])

Inv4(a) ==
    LET d == Det3(a)
        inv == [r \in 1 .. 3 |-> [c \in 1 .. 3 |-> d * Cofactor(a, c, r)]]
        t == [r \in 1 .. 3 |->
                 -(inv[r][1] * a[1][4] + inv[r][2] * a[2][4] + inv[r][3] * a[3][4])]
    IN  Affine(inv, t)

\* The geometry of the two images, which the FSL and ITK conventions need:
\* FSL coordinates to RAS for the BOLD reference (source) and for the T1w
\* (target), and the RAS-to-LPS flip of ITK.
SrcGeom == Affine(Eye3, <<4, 0, 0>>)
TgtGeom == Affine(<< <<-1, 0, 0>>, <<0, 1, 0>>, <<0, 0, 1>> >>, <<0, 6, 0>>)
Lps == Affine(<< <<-1, 0, 0>>, <<0, -1, 0>>, <<0, 0, 1>> >>, <<0, 0, 0>>)

\* LTAConvert: RAS-to-RAS (LTA) to FSL and back.
ToFsl(ras) == Mul4(Inv4(TgtGeom), Mul4(ras, SrcGeom))
ToLta(fsl) == Mul4(TgtGeom, Mul4(fsl, Inv4(SrcGeom)))

\* c3d_affine_tool -fsl2ras -oitk, for a BOLD-to-T1w FSL matrix (fwd) and
\* for a T1w-to-BOLD one (inv): ITK holds the inverse map, in LPS.
ToItkFwd(fsl) == Mul4(Lps, Mul4(Inv4(ToLta(fsl)), Lps))
ToItkInv(fsl) == Mul4(Lps, Mul4(Inv4(Mul4(SrcGeom, Mul4(fsl, Inv4(TgtGeom)))), Lps))

Written(ext, rows, node) == [ext |-> ext, mat |-> Matrix(rows, {}), by |-> node]

\* The value on a port: unset, a list of files, or a boolean.
NoVal == [set |-> FALSE, files |-> <<>>, flag |-> FALSE]
FilesVal(l) == [set |-> TRUE, files |-> l, flag |-> FALSE]
FlagVal(b) == [set |-> TRUE, files |-> <<>>, flag |-> b]

\* The transform from FreeSurfer-native to anatomical space the caller gives.
FsNativeXfm == Written("lta", Affine(Eye3, <<1, 0, -2>>), "caller")

\* The registrations the external tools (mri_coreg, bbregister, flirt) find.
WfAffines ==
    { Affine(Eye3, <<0, 0, 0>>), Affine(Eye3, <<3, 4, 0>>),
      Affine(Eye3, <<0, 0, 16>>), Affine(RotZ, <<0, 0, 0>>) }

Sources(n, f) == {e \in wf.edges : e[3] = n /\ e[4] = f}

FixedOf(n, f) == {x \in wf.fixed : x[1] = n /\ x[2] = f}

\* The value input f of node n receives: from the edge that feeds it, else
\* from the fixed input set at build time, else nothing.
In(n, f) ==
    IF Sources(n, f) # {}
    THEN LET e == CHOOSE e \in Sources(n, f) : TRUE IN out[<<e[1], e[2]>>]
    ELSE IF FixedOf(n, f) # {}
    THEN FlagVal(\E x \in FixedOf(n, f) : x[3] = "True")
    ELSE NoVal

\* niu.Select: the 0-based index, a boolean counting as 0 or 1.
SelectIndex ==
    IF Sources("select_transform", "index") # {}
    THEN IF In("select_transform", "index").flag THEN 1 ELSE 0
    ELSE 0

\* niu.Merge(2): the inputs that are set, in1 before in2.
Merged(n) == In(n, "in1").files \o In(n, "in2").files

OneFile(v) == v.set /\ Len(v.files) = 1

\* Whether node n, its inputs being there, runs to its end.
Completes(n) ==
    CASE n = "compare_transforms" ->
            /\ Len(In(n, "lta_list").files) = 2
            /\ compare_xforms(In(n, "lta_list").files, <<>>).state = "returned"
      [] n = "select_transform" -> SelectIndex < Len(In(n, "inlist").files)
      \* MRICoreg: source_file is mandatory
      [] n = "mri_coreg" -> Sources(n, "source_file") # {}
      \* BBRegister: init and init_reg_file exclude each other
      [] n = "bbregister" -> FixedOf(n, "init") = {} \/ Sources(n, "init_reg_file") = {}
      [] n = "lta_to_fsl" -> OneFile(In(n, "in_lta"))
      [] n = "invt_bbr" -> OneFile(In(n, "in_file"))
      [] n \in {"fsl2itk_fwd", "fsl2itk_inv"} -> OneFile(In(n, "transform_file"))
      [] n = "concat_xfm" -> Len(In(n, "in_xfms").files) = 2
      [] OTHER -> TRUE

\* What node n puts on its output f; found is what the external
\* registration tool of the node, if it is one, came up with.
NodeOut(n, f, found) ==
    CASE n = "inputnode" ->
            IF f = "fsnative2anat_xfm" THEN FilesVal(<<FsNativeXfm>>) ELSE FilesVal(<<>>)
      [] n = "mri_coreg" -> FilesVal(<<Written("lta", found, n)>>)
      [] n = "bbregister" -> FilesVal(<<Written("lta", found, n)>>)
      [] n = "flt_bbr" -> FilesVal(<<Written("mat", ToFsl(found), n)>>)
      [] n = "lta_to_fsl" ->
            FilesVal(<<Written("mat", ToFsl(In(n, "in_lta").files[1].mat.rows), n)>>)
      [] n = "fsl_to_lta" ->
            LET l == In(n, "in_fsl").files
            IN  FilesVal([i \in 1 .. Len(l) |-> Written("lta", ToLta(l[i].mat.rows), n)])
      [] n \in {"transforms", "merge_ltas"} -> FilesVal(Merged(n))
      [] n = "compare_transforms" ->
            FlagVal(compare_xforms(In(n, "lta_list").files, <<>>).out)
      [] n = "select_transform" ->
            FilesVal(<<In(n, "inlist").files[SelectIndex + 1]>>)
      [] n = "concat_xfm" ->
            LET l == In(n, "in_xfms").files
                chain == Mul4(l[2].mat.rows, l[1].mat.rows)
            IN  FilesVal(<<Written("itk", IF f = "out_inv" THEN Inv4(chain) ELSE chain, n)>>)
      [] n = "invt_bbr" ->
            FilesVal(<<Written("mat", Inv4(In(n, "in_file").files[1].mat.rows), n)>>)
      [] n = "fsl2itk_fwd" ->
            FilesVal(<<Written("itk", ToItkFwd(In(n, "transform_file").files[1].mat.rows), n)>>)
      [] n = "fsl2itk_inv" ->
            FilesVal(<<Written("itk", ToItkInv(In(n, "transform_file").files[1].mat.rows), n)>>)
      [] n = "outputnode" -> In(n, f)
      [] OTHER -> FilesVal(<<>>)

-----------------------------------------------------------------------------
(* Building a registration workflow and running it                         *)

Builders == {"init_bbreg_wf", "init_fsl_bbr_wf", "init_bold_reg_wf"}

\* freesurfer is an argument of init_bold_reg_wf only.
WfArgs ==
    { a \in [builder : Builders,
             freesurfer : BOOLEAN,
             use_bbr : {"True", "False", "None"},
             bold2anat_dof : AffineDOF \cup {7},
             bold2anat_init : RegistrationInit \cup {"auto"},
             sloppy : BOOLEAN] :
        a.builder # "init_bold_reg_wf" => a.freesurfer = (a.builder = "init_bbreg_wf") }

WfIdle ==
    /\ wf_args = [builder |-> "init_bbreg_wf", freesurfer |-> TRUE, use_bbr |-> "None",
                  bold2anat_dof |-> 6, bold2anat_init |-> "t1w", sloppy |-> FALSE]
    /\ wf = NoGraph
    /\ ran = {}
    /\ out = [p \in Ports |-> NoVal]

\* The builder is called with wf_args.
Build ==
    /\ wf.state = "unbuilt"
    /\ wf' = IF wf_args.builder = "init_bbreg_wf" THEN init_bbreg_wf(wf_args)
             ELSE IF wf_args.builder = "init_fsl_bbr_wf" THEN init_fsl_bbr_wf(wf_args)
             ELSE init_bold_reg_wf(wf_args)
    /\ UNCHANGED <<wf_args, ran, out>>
    /\ UNCHANGED <<cmpVars, dsVars, mcVars, roiVars>>

\* The engine runs a node all of whose feeding nodes have run.
Run(n) ==
    /\ wf.state = "built"
    /\ n \in NodesOf(wf.edges) \ ran
    /\ \A e \in wf.edges : e[3] = n => e[1] \in ran
    /\ Completes(n)
    /\ \E found \in WfAffines :
          out' = [p \in Ports |-> IF p[1] = n THEN NodeOut(n, p[2], found) ELSE out[p]]
    /\ ran' = ran \cup {n}
    /\ UNCHANGED <<wf_args, wf>>
    /\ UNCHANGED <<cmpVars, dsVars, mcVars, roiVars>>

RunNode == \E n \in NodesOf(AllEdges) : Run(n)

-----------------------------------------------------------------------------
(* _conditional_downsampling                                               *)

\* Lengths of image geometry are whole numbers of 1/Unit mm.
Unit == 2 ^ 10

\* zoom_th=4.0 in the signature.
DefaultZoomTh == 4 * Unit

Axes == 1 .. 3

\* An image file: its grid (shape, affine = rot and off, the voxel sizes of
\* its header), its voxels (a mask's, in C order; not followed for the
\* reference), and the input file it was resampled from (<<>> for an input).
Image(shape, rot, off, zooms, data, from) ==
    [exists |-> TRUE, shape |-> shape, rot |-> rot, off |-> off, zooms |-> zooms,
     data |-> data, from |-> from]

NoFile ==
    [exists |-> FALSE, shape |-> <<0, 0, 0>>, rot |-> Zero3, off |-> <<0, 0, 0>>,
     zooms |-> <<0, 0, 0>>, data |-> <<>>, from |-> <<>>]

\* The voxel sizes nibabel puts in the header of an image made from an
\* affine: the lengths of the columns of its 3x3 block.  The block has one
\* entry per column here, whose absolute value is that length.
ZoomsOf(rot) == [c \in Axes |-> Abs(rot[1][c]) + Abs(rot[2][c]) + Abs(rot[3][c])]

\* th / z times e, for numbers of which one divides the other.
Scaled(e, th, z) ==
    IF th % z = 0 THEN e * (th \div z)
    ELSE IF z % th = 0 THEN e \div (z \div th)
    ELSE (e * th) \div z

CeilDiv(a, b) == (a + b - 1) \div b

\* The voxel sizes of a header are floats, read as they are stored: they
\* can be zero, negative, infinite or NaN.  The two non-finite values are
\* kept as two numbers above every length used.
Inf == 2 ^ 30
NaN == 2 ^ 30 + 1

\* a < b and a <= b on floats: a comparison with NaN is False.
Lt(a, b) == a # NaN /\ b # NaN /\ a < b
Le(a, b) == a # NaN /\ b # NaN /\ a <= b

\* Voxel sizes that are not those of a physical grid.
Degenerate(zooms) == \E i \in Axes : zooms[i] <= 0 \/ zooms[i] \in {Inf, NaN}

\* A test that also resamples a voxel size equal to the threshold.
AnyFinerOrEqual(zooms, zoom_th) == \E i \in Axes : Le(zooms[i], zoom_th)

\* A test that takes a NaN voxel size for a fine one.
AnyFinerOrNaN(zooms, zoom_th) == \E i \in Axes : zooms[i] = NaN \/ Lt(zooms[i], zoom_th)

\* np.any(zooms < zoom_th)
AnyFiner(zooms, zoom_th) == \E i \in Axes : Lt(zooms[i], zoom_th)

\* What the arithmetic of lines 935-943 on degenerate voxel sizes ends in:
\* np.zeros refuses a negative dimension (ValueError), nibabel cannot
\* decompose an affine holding inf or NaN (LinAlgError).
GeometryFailures == {"ValueError", "LinAlgError"}

\* np.diag(scaling).dot(img.affine[:3, :3]), scaling = zoom_th / zooms:
\* row r of the block times scaling[r].
NewRot(img, zoom_th) ==
    [r \in Axes |-> [c \in Axes |-> Scaled(img.rot[r][c], zoom_th, img.zooms[r])]]

\* np.ceil(shape / scaling)
NewShape(img, zoom_th) == [i \in Axes |-> CeilDiv(img.shape[i] * img.zooms[i], zoom_th)]

\* rot . ((shape - 1) * 0.5)
HalfExtent(rot, shape) ==
    [r \in Axes |-> (rot[r][1] * (shape[1] - 1) + rot[r][2] * (shape[2] - 1)
                   + rot[r][3] * (shape[3] - 1)) \div 2]

\* A new grid that keeps the origin of the old one.
NewOffsetKept(img, zoom_th) == img.off

\* old_center - newrot.dot((newshape - 1) * 0.5)
NewOffset(img, zoom_th) ==
    LET old_center == [r \in Axes |-> HalfExtent(img.rot, img.shape)[r] + img.off[r]]
        new_half == HalfExtent(NewRot(img, zoom_th), NewShape(img, zoom_th))
    IN  [r \in Axes |-> old_center[r] - new_half[r]]

\* newref: the grid both outputs are resampled onto.
NewRef(img, zoom_th) ==
    [shape |-> NewShape(img, zoom_th), rot |-> NewRot(img, zoom_th),
     off |-> NewOffset(img, zoom_th), zooms |-> ZoomsOf(NewRot(img, zoom_th))]

VoxelCount(shape) == shape[1] * shape[2] * shape[3]

\* The threshold of the binarisation, 0.5, in tenths.
HalfLevel == 5

\* A binarisation that also keeps a voxel at exactly 0.5.
BinarizeGeq(level) == IF level >= HalfLevel THEN 1 ELSE 0

\* (newmask.get_fdata() > 0.5).astype(np.uint8), a voxel at a time.
Binarize(level) == IF level > HalfLevel THEN 1 ELSE 0

\* The blurred mask (gaussian_filter) resampled onto newref (nitransforms,
\* cubic) is not computed here: any value can come out at a voxel, in tenths
\* from below 0 to above 1.  The blurred masks tried are these.
Levels == <<0, 4, 5, 6, 10, -1, 11>>

FloatMasks(n) ==
    { [i \in 1 .. n |-> Levels[((i + k) % Len(Levels)) + 1]] : k \in 0 .. Len(Levels) - 1 }

\* Path('...').absolute()
OutFile(dir) == <<dir, "desc-resampled_input.nii.gz">>
OutMask(dir) == <<dir, "desc-resampled_mask.nii.gz">>

InFile == <<"/anat", "t1w_brain.nii.gz">>
InMask == <<"/anat", "wm_mask.nii.gz">>
WorkDir == "/work"

\* The inputs and the working directory of a second invocation.
InFile2 == <<"/anat", "t2w_brain.nii.gz">>
InMask2 == <<"/anat", "t2w_wm_mask.nii.gz">>
WorkDir2 == "/work2"

PathsUsed ==
    {InFile, InMask, InFile2, InMask2, OutFile(WorkDir), OutMask(WorkDir),
     OutFile(WorkDir2), OutMask(WorkDir2)}

ZoomThOf(arg) == IF arg = <<>> THEN DefaultZoomTh ELSE arg[1]

NoGrid == [shape |-> <<0, 0, 0>>, rot |-> Zero3, off |-> <<0, 0, 0>>, zooms |-> <<0, 0, 0>>]

\* A call not begun.  grid is the local newref, float the local newmask.
DsNone ==
    [pc |-> "idle", call |-> 1, ret |-> <<>>, err |-> "none", resampled |-> FALSE,
     grid |-> NoGrid, float |-> <<>>]

\* No second invocation.
NoOther ==
    [on |-> FALSE, args |-> [in_file |-> InFile2, in_mask |-> InMask2, zoom_th |-> <<>>],
     cwd |-> WorkDir, call |-> DsNone]

DsIdle ==
    /\ ds_args = [in_file |-> InFile, in_mask |-> InMask, zoom_th |-> <<>>]
    /\ cwd = WorkDir
    /\ fs = [p \in PathsUsed |-> NoFile]
    /\ fs_before = fs
    /\ ds = DsNone
    /\ other = NoOther

\* Lines 925-943: the reference is loaded; if no voxel size is finer than
\* the threshold the inputs are returned, else the reference is resampled
\* onto the new grid and written to out_file.  What a call with arguments
\* args, in directory dir, on the files there are, can come to: the state
\* of the call and the files after it.
ReferenceOutcomes(args, call, files, dir) ==
    LET img == files[args.in_file]
        zoom_th == ZoomThOf(args.zoom_th)
        ref == NewRef(img, zoom_th)
    IN  IF ~img.exists
        THEN { [call |-> [call EXCEPT !.pc = "raised", !.err = "FileNotFoundError"],
                files |-> files] }
        ELSE IF ~AnyFiner(img.zooms, zoom_th)
        THEN { [call |-> [call EXCEPT !.pc = "returned",
                                      !.ret = <<args.in_file, args.in_mask>>],
                files |-> files] }
        ELSE IF Degenerate(img.zooms)
        THEN { [call |-> [call EXCEPT !.pc = "raised", !.err = e], files |-> files] :
               e \in GeometryFailures }
        ELSE { [call |-> [call EXCEPT !.pc = "reference_written", !.resampled = TRUE,
                                      !.grid = ref],
                files |-> [files EXCEPT ![OutFile(dir)] =
                             Image(ref.shape, ref.rot, ref.off, ref.zooms, <<>>,
                                   args.in_file)]] }

\* Lines 945-955: the mask is loaded, blurred, resampled onto the same new
\* grid, binarised and written to out_mask; both paths are returned.
MaskOutcomes(args, call, files, dir) ==
    LET mask == files[args.in_mask]
        ref == call.grid
    IN  IF ~mask.exists
        THEN { [call |-> [call EXCEPT !.pc = "raised", !.err = "FileNotFoundError"],
                files |-> files] }
        ELSE { [call |-> [call EXCEPT !.pc = "returned", !.float = newmask,
                                      !.ret = <<OutFile(dir), OutMask(dir)>>],
                files |-> [files EXCEPT ![OutMask(dir)] =
                             Image(ref.shape, ref.rot, ref.off, ref.zooms,
                                   [i \in 1 .. Len(newmask) |-> Binarize(newmask[i])],
                                   args.in_mask)]] :
               newmask \in FloatMasks(VoxelCount(ref.shape)) }

DsReference ==
    /\ ds.pc = "idle"
    /\ \E o \in ReferenceOutcomes(ds_args, ds, fs, cwd) : ds' = o.call /\ fs' = o.files
    /\ fs_before' = fs
    /\ UNCHANGED <<ds_args, cwd, other>>
    /\ UNCHANGED <<cmpVars, wfVars, mcVars, roiVars>>

DsMask ==
    /\ ds.pc = "reference_written"
    /\ \E o \in MaskOutcomes(ds_args, ds, fs, cwd) : ds' = o.call /\ fs' = o.files
    /\ UNCHANGED <<ds_args, cwd, fs_before, other>>
    /\ UNCHANGED <<cmpVars, wfVars, mcVars, roiVars>>

\* A second invocation of the function, by another process: the same two
\* steps, on its own arguments and in its own working directory.
OtherReference ==
    /\ other.on /\ other.call.pc = "idle"
    /\ \E o \in ReferenceOutcomes(other.args, other.call, fs, other.cwd) :
          /\ other' = [other EXCEPT !.call = o.call]
          /\ fs' = o.files
    /\ UNCHANGED <<ds_args, cwd, fs_before, ds>>
    /\ UNCHANGED <<cmpVars, wfVars, mcVars, roiVars>>

OtherMask ==
    /\ other.on /\ other.call.pc = "reference_written"
    /\ \E o \in MaskOutcomes(other.args, other.call, fs, other.cwd) :
          /\ other' = [other EXCEPT !.call = o.call]
          /\ fs' = o.files
    /\ UNCHANGED <<ds_args, cwd, fs_before, ds>>
    /\ UNCHANGED <<cmpVars, wfVars, mcVars, roiVars>>

\* The function is called again, on what it returned.
DsAgain ==
    /\ ds.pc = "returned" /\ ds.call = 1
    /\ ds_args' = [ds_args EXCEPT !.in_file = ds.ret[1], !.in_mask = ds.ret[2]]
    /\ ds' = [DsNone EXCEPT !.call = 2]
    /\ fs_before' = fs
    /\ UNCHANGED <<cwd, fs, other>>
    /\ UNCHANGED <<cmpVars, wfVars, mcVars, roiVars>>

-----------------------------------------------------------------------------
(* MCRIBReconAll._setup_directory_structure (nibabies/interfaces/mcribs.py) *)

\* A path under mcribs_dir is the sequence of its names, a name the sequence
\* of its parts: <<sid>> for f'{sid}', <<sid, ".nii.gz">> for
\* f'{sid}.nii.gz', <<"RawT2">> for 'RawT2'.  <<>> is mcribs_dir itself.
NiiOf(sid) == <<sid, ".nii.gz">>
Up == <<"..">>

Absent == [kind |-> "absent", content |-> "", target |-> <<>>]
Folder == [kind |-> "dir", content |-> "", target |-> <<>>]
FileWith(c) == [kind |-> "file", content |-> c, target |-> <<>>]
LinkTo(t) == [kind |-> "link", content |-> "", target |-> t]

Parent(p) == SubSeq(p, 1, Len(p) - 1)

Prefixes(p) == { SubSeq(p, 1, n) : n \in 0 .. Len(p) }

\* The path a relative target, followed from directory dir, leads to.
RECURSIVE Follow(_, _)
Follow(dir, target) ==
    IF target = <<>> THEN dir
    ELSE IF Head(target) = Up
    THEN Follow(IF dir = <<>> THEN <<>> ELSE Parent(dir), Tail(target))
    ELSE Follow(Append(dir, Head(target)), Tail(target))

\* The paths of the function, for subject sid.
RootOf(sid) == << <<sid>> >>
RawT2Of(sid) == RootOf(sid) \o << <<"RawT2">>, NiiOf(sid) >>
IsoOf(sid) == RootOf(sid) \o << <<"RawT2RadiologicalIsotropic">>, NiiOf(sid) >>
N4Of(sid) == RootOf(sid) \o << <<sid>>, <<"N4">>, NiiOf(sid) >>
TisSegOf(sid) == RootOf(sid) \o << <<"TissueSeg">>, <<sid, "_all_labels.nii.gz">> >>
ManEditOf(sid) == RootOf(sid) \o << <<"TissueSeg">>, <<sid, "_all_labels_manedit.nii.gz">> >>
SurfRecOf(sid) ==
    RootOf(sid) \o << <<"SurfReconDeformable">>, <<sid>>, <<"temp">>, <<"t2w-image.nii.gz">> >>

\* The tree the docstring draws has the N4 image here.
DrawEMOf(sid) == RootOf(sid) \o << <<"TissueSegDrawEM">>, <<sid>>, <<"N4">>, NiiOf(sid) >>

\* The targets of the symbolic links, as written.
IsoTarget(sid) == << Up, Up, <<"RawT2">>, NiiOf(sid) >>
N4Target(sid) == << Up, Up, Up, <<"RawT2">>, NiiOf(sid) >>
SurfRecTarget(sid) == << Up, Up, Up, Up, <<"RawT2">>, NiiOf(sid) >>
ManEditTarget(sid) == << <<sid, "_all_labels.nii.gz">> >>

SubjectIds == {"sub-01", "sub-02"}

TreePaths ==
    UNION { Prefixes(p) :
            p \in UNION { { RawT2Of(sid), IsoOf(sid), N4Of(sid), TisSegOf(sid), ManEditOf(sid),
                            SurfRecOf(sid), DrawEMOf(sid), << <<"RawT2">>, NiiOf(sid) >> } :
                          sid \in SubjectIds } }

\* Path.exists(): the path, symbolic links followed, leads to something.
Exists(t, p) ==
    LET q == IF t[p].kind = "link" THEN Follow(Parent(p), t[p].target) ELSE p
    IN  q \in DOMAIN t /\ t[q].kind \in {"dir", "file"}

\* The state of the function between two statements: the tree and the
\* exception raised so far ("none": still running).
Going(t) == [tree |-> t, err |-> "none"]
Failed(st, e) == [st EXCEPT !.err = e]

\* p.mkdir(parents=True, exist_ok=True)
Mkdir(st, p) ==
    IF st.err # "none" THEN st
    ELSE IF \E q \in Prefixes(p) : st.tree[q].kind = "file" THEN Failed(st, "FileExistsError")
    ELSE Going([q \in DOMAIN st.tree |->
                  IF q \in Prefixes(p) /\ st.tree[q].kind = "absent" THEN Folder
                  ELSE st.tree[q]])

\* if not p.exists(): shutil.copy(src, str(p)), src holding content c
CopyUnlessExists(st, c, p) ==
    IF st.err # "none" \/ Exists(st.tree, p) THEN st
    ELSE LET q == IF st.tree[p].kind = "link" THEN Follow(Parent(p), st.tree[p].target)
                  ELSE p
         IN  IF q \notin DOMAIN st.tree \/ st.tree[Parent(q)].kind # "dir"
             THEN Failed(st, "FileNotFoundError")
             ELSE Going([st.tree EXCEPT ![q] = FileWith(c)])

\* if not p.exists(): shutil.copy(self.inputs.segmentation, str(p)): the
\* input spec has no trait named segmentation, reading it raises.
CopyNoSuchInputUnlessExists(st, p) ==
    IF st.err # "none" \/ Exists(st.tree, p) THEN st ELSE Failed(st, "AttributeError")

\* if not p.exists(): p.symlink_to(target)
LinkUnlessExists(st, p, target) ==
    IF st.err # "none" \/ Exists(st.tree, p) THEN st
    ELSE IF st.tree[p].kind # "absent" THEN Failed(st, "FileExistsError")
    ELSE Going([st.tree EXCEPT ![p] = LinkTo(target)])

\* The statements of the function in turn, on tree t0 with inputs in.
setup_directory_structure(t0, in) ==
    LET sid == in.subject_id
        s1 == Mkdir(Going(t0), RootOf(sid))
        \* T2w operations
        s2 == CopyUnlessExists(Mkdir(s1, Parent(RawT2Of(sid))), in.t2w_file, RawT2Of(sid))
        s3 == IF in.conform THEN s2
              ELSE LinkUnlessExists(Mkdir(s2, Parent(IsoOf(sid))), IsoOf(sid), IsoTarget(sid))
        s4 == IF in.conform THEN s3
              ELSE LinkUnlessExists(Mkdir(s3, Parent(N4Of(sid))), N4Of(sid), N4Target(sid))
        \* Segmentation
        s5 == CopyNoSuchInputUnlessExists(Mkdir(s4, Parent(TisSegOf(sid))), TisSegOf(sid))
        s6 == LinkUnlessExists(s5, ManEditOf(sid), ManEditTarget(sid))
        s7 == IF in.surfrecon
              THEN LinkUnlessExists(Mkdir(s6, Parent(SurfRecOf(sid))), SurfRecOf(sid),
                                    SurfRecTarget(sid))
              ELSE s6
    IN  IF in.segmentation_file # <<>> THEN s7 ELSE s4

McInputs ==
    [subject_id : SubjectIds,
     t2w_file : {"t2w image"},
     segmentation_file : {<<>>, <<"segmentation">>},
     conform : BOOLEAN,
     surfrecon : BOOLEAN]

McNone == [pc |-> "idle", err |-> "none", call |-> 1]

EmptyTree == [p \in TreePaths |-> IF p = <<>> THEN Folder ELSE Absent]

McIdle ==
    /\ mc_inputs = [subject_id |-> "sub-01", t2w_file |-> "t2w image",
                    segmentation_file |-> <<>>, conform |-> FALSE, surfrecon |-> TRUE]
    /\ tree = EmptyTree
    /\ mc = McNone

\* _setup_directory_structure(mcribs_dir) is called, and runs to its return
\* or to the exception that ends it.
McSetup ==
    /\ mc.pc = "idle"
    /\ LET end == setup_directory_structure(tree, mc_inputs)
       IN  /\ tree' = end.tree
           /\ mc' = [mc EXCEPT !.pc = IF end.err = "none" THEN "returned" ELSE "raised",
                               !.err = end.err]
    /\ UNCHANGED mc_inputs
    /\ UNCHANGED <<cmpVars, wfVars, dsVars, roiVars>>

\* The interface is run again on the directory a run left (MCRIBS_SUBJECTS).
McAgain ==
    /\ mc.pc # "idle" /\ mc.call = 1
    /\ mc' = [McNone EXCEPT !.call = 2]
    /\ UNCHANGED <<mc_inputs, tree>>
    /\ UNCHANGED <<cmpVars, wfVars, dsVars, roiVars>>

-----------------------------------------------------------------------------
(* parse_roi_labels (nibabies/workflows/bold/alignment.py)                 *)

\* A text is a sequence of pieces: a piece is a space, a tab, a newline, or
\* a run of characters that are none of these.
Space == " "
Tab == "\t"
Newline == "\n"
Whitespace == {Space, Tab, Newline}

\* fp.readlines(): the text cut after each newline; what follows the last
\* newline, if anything, is a last line without one.
RECURSIVE ReadLinesFrom(_, _)
ReadLinesFrom(text, line) ==
    IF text = <<>> THEN (IF line = <<>> THEN <<>> ELSE <<line>>)
    ELSE IF Head(text) = Newline
    THEN <<Append(line, Newline)>> \o ReadLinesFrom(Tail(text), <<>>)
    ELSE ReadLinesFrom(Tail(text), Append(line, Head(text)))

ReadLines(text) == ReadLinesFrom(text, <<>>)

RECURSIVE LStrip(_)
LStrip(line) ==
    IF line # <<>> /\ Head(line) \in Whitespace THEN LStrip(Tail(line)) ELSE line

RECURSIVE RStrip(_)
RStrip(line) ==
    IF line # <<>> /\ line[Len(line)] \in Whitespace
    THEN RStrip(SubSeq(line, 1, Len(line) - 1))
    ELSE line

\* A strip that leaves the leading whitespace.
StripTrailing(line) == RStrip(line)

\* line.strip()
Strip(line) == LStrip(RStrip(line))

\* line.split(' ', 1)[0]: what precedes the first space, the whole line if
\* it has none.
RECURSIVE FirstField(_)
FirstField(line) ==
    IF line = <<>> \/ Head(line) = Space THEN <<>>
    ELSE <<Head(line)>> \o FirstField(Tail(line))

RoiNone == [pc |-> "idle", err |-> "none", structs |-> <<>>, label_ids |-> <<>>]

\* Lines 245-255.
parse_roi_labels(file) ==
    IF ~file.exists THEN [RoiNone EXCEPT !.pc = "raised", !.err = "FileNotFoundError"]
    ELSE LET lines == ReadLines(file.text)
             pairs == Len(lines) \div 2
         IN  IF Len(lines) % 2 = 1
             THEN [RoiNone EXCEPT !.pc = "raised", !.err = "RuntimeError"]
             ELSE [RoiNone EXCEPT !.pc = "returned",
                                  !.structs = [i \in 1 .. pairs |-> Strip(lines[2 * i - 1])],
                                  !.label_ids = [i \in 1 .. pairs |-> FirstField(lines[2 * i])]]

NoLabelFile == [exists |-> FALSE, text |-> <<>>]

RoiIdle ==
    /\ label_file = NoLabelFile
    /\ roi = RoiNone

\* parse_roi_labels(label_file) is called.
ParseRoiLabels ==
    /\ roi.pc = "idle"
    /\ roi' = parse_roi_labels(label_file)
    /\ UNCHANGED label_file
    /\ UNCHANGED <<cmpVars, wfVars, dsVars, mcVars>>

-----------------------------------------------------------------------------
(* The calls of compare_xforms that are checked                            *)

MaxThreshold == 17

\* The thresholds a caller passes: none (the default), or a number.
ThresholdArgs == {<<>>} \cup {<<t>> : t \in -1 .. MaxThreshold} \cup {<<156>>}

Shifts == { <<0, 0, 0>>, <<3, 4, 0>>, <<0, 0, 15>>, <<2, 3, 6>>, <<12, 9, 8>> }

\* Well-formed, invertible affines.
GoodFiles ==
    {Lta(Eye3, t) : t \in Shifts}
    \cup {Lta(RotZ, <<0, 0, 0>>), Lta(RotX, <<1, 0, 2>>), Lta(Scale2, <<0, 0, 0>>),
          File("mat", Matrix(Affine(Eye3, <<0, 5, 0>>), {}))}

\* Affines whose 3x3 block has determinant 0.
SingularFiles == {Lta(Flat, <<0, 0, 0>>), Lta(Zero3, <<3, 4, 0>>)}

\* Affines with a NaN entry: in the 3x3 block, in the translation, and in
\* the bottom row (which the norm never reads).
NaNFiles ==
    { File("lta", Matrix(Affine(Eye3, <<0, 0, 0>>), {<<2, 2>>})),
      File("lta", Matrix(Affine(Eye3, <<0, 0, 0>>), {<<1, 4>>})) }

\* Matrices of another shape: 3x4, 4x3, 2x4, and an .lta with five lines.
ShapeFiles ==
    { File("mat", Matrix(FirstRows(Affine(Eye3, <<3, 4, 0>>), 3), {})),
      File("mat", Matrix(<< <<1, 0, 0>>, <<0, 1, 0>>, <<0, 0, 1>>, <<0, 0, 0>> >>, {})),
      File("mat", Matrix(FirstRows(Affine(Eye3, <<0, 0, 0>>), 2), {})),
      File("lta", Matrix(Affine(Eye3, <<0, 0, 0>>) \o << <<9, 9, 9, 9>> >>, {})) }

\* A file load_transform does not know.
OtherFiles == { File("txt", Matrix(Affine(Eye3, <<0, 0, 0>>), {})) }

CmpFiles == GoodFiles \cup SingularFiles \cup NaNFiles \cup ShapeFiles \cup OtherFiles

\* Rigid transforms (an orthogonal 3x3 block of determinant 1 and a
\* translation), entries over the denominator den.
Rot345 == << <<3, -4, 0>>, <<4, 3, 0>>, <<0, 0, 5>> >>   \* / 5: cos = 3/5, sin = 4/5

Rigids ==
    { [rows |-> Affine(RotX, <<7, -2, 3>>), den |-> 1],
      [rows |-> Affine(Rot345, <<5, 0, 10>>), den |-> 5] }

IsAffineShape(mat) == Len(mat.rows) = 4 /\ \A r \in 1 .. 4 : Len(mat.rows[r]) = 4

\* The file holding R . A for the affine A of file f: the matrix product,
\* over the denominator R.den * A.den; a NaN entry of A spoils its column.
Moved(R, f) ==
    [f EXCEPT !.mat =
        [rows |-> [r \in 1 .. 4 |-> [c \in 1 .. 4 |->
                      R.rows[r][1] * f.mat.rows[1][c] + R.rows[r][2] * f.mat.rows[2][c]
                    + R.rows[r][3] * f.mat.rows[3][c] + R.rows[r][4] * f.mat.rows[4][c]]],
         nan |-> {p \in (1 .. 4) \X (1 .. 4) : \E q \in f.mat.nan : q[2] = p[2]},
         den |-> R.den * f.mat.den]]

CmpIdle ==
    /\ cmp = NoCall
    /\ cmp_moved = NoCall

CmpInit ==
    /\ lta_list \in CmpFiles \X CmpFiles
    /\ norm_threshold \in ThresholdArgs
    /\ rigid \in Rigids
    /\ CmpIdle
    /\ WfIdle
    /\ DsIdle
    /\ McIdle
    /\ RoiIdle

\* compare_xforms(lta_list, norm_threshold) is called.
Compare ==
    /\ cmp.state = "idle"
    /\ cmp' = compare_xforms(lta_list, norm_threshold)
    /\ UNCHANGED <<lta_list, norm_threshold, rigid, cmp_moved>>
    /\ UNCHANGED <<wfVars, dsVars, mcVars, roiVars>>

\* compare_xforms is called on the same pair moved by the rigid transform.
CompareMoved ==
    /\ cmp_moved.state = "idle"
    /\ IsAffineShape(lta_list[1].mat) /\ IsAffineShape(lta_list[2].mat)
    /\ cmp_moved' = compare_xforms(<<Moved(rigid, lta_list[1]), Moved(rigid, lta_list[2])>>,
                                   norm_threshold)
    /\ UNCHANGED <<lta_list, norm_threshold, rigid, cmp>>
    /\ UNCHANGED <<wfVars, dsVars, mcVars, roiVars>>

CmpNext == Compare \/ CompareMoved

SpecCmp == CmpInit /\ [][CmpNext]_vars

WfInit ==
    /\ lta_list = <<Lta(Eye3, <<0, 0, 0>>), Lta(Eye3, <<0, 0, 0>>)>>
    /\ norm_threshold = <<>>
    /\ rigid \in {R \in Rigids : R.den = 1}
    /\ CmpIdle
    /\ wf_args \in WfArgs
    /\ wf = NoGraph
    /\ ran = {}
    /\ out = [p \in Ports |-> NoVal]
    /\ DsIdle
    /\ McIdle
    /\ RoiIdle

WfNext == Build \/ RunNode

\* The reference images tried: axes along x, y, z; the first two axes
\* exchanged; the first axis reversed.
Orientations ==
    { << <<1, 0, 0>>, <<0, 1, 0>>, <<0, 0, 1>> >>,
      << <<0, 1, 0>>, <<1, 0, 0>>, <<0, 0, 1>> >>,
      << <<-1, 0, 0>>, <<0, 1, 0>>, <<0, 0, 1>> >> }

\* Voxel sizes, in mm.
ZoomsTried ==
    { <<1, 1, 1>>, <<2, 2, 2>>, <<4, 4, 4>>, <<8, 8, 8>>, <<1, 2, 4>>, <<2, 4, 4>>,
      <<4, 8, 4>>, <<1, 8, 2>> }

ShapesTried == { <<4, 4, 2>>, <<3, 5, 1>> }

\* The affine block of orientation o with voxel sizes z: column c is the
\* direction of voxel axis c times z[c].
RotOf(o, z) == [r \in Axes |-> [c \in Axes |-> o[r][c] * z[c] * Unit]]

InputImage(o, z, shape, data) ==
    Image(shape, RotOf(o, z), <<-10 * Unit, 6 * Unit, 0>>, ZoomsOf(RotOf(o, z)), data, <<>>)

\* The voxel sizes the header of a file can hold for a grid of voxel sizes
\* z: those, or a header with a zero, negative, infinite or NaN entry.
HeaderZooms(z) ==
    { z, <<0, z[2], z[3]>>, <<-z[1], z[2], z[3]>>, <<z[1], Inf, z[3]>>,
      <<z[1], z[2], NaN>>, <<NaN, NaN, NaN>> }

WithHeader(img, zooms) == [img EXCEPT !.zooms = zooms]

DsInit ==
    /\ lta_list = <<Lta(Eye3, <<0, 0, 0>>), Lta(Eye3, <<0, 0, 0>>)>>
    /\ norm_threshold = <<>>
    /\ rigid \in {R \in Rigids : R.den = 1}
    /\ CmpIdle
    /\ WfIdle
    /\ ds_args \in [in_file : {InFile}, in_mask : {InMask}, zoom_th : {<<>>, <<2 * Unit>>}]
    /\ cwd = WorkDir
    /\ \E o \in Orientations, z \in ZoomsTried, shape \in ShapesTried,
          there \in {<<TRUE, TRUE>>, <<TRUE, FALSE>>, <<FALSE, TRUE>>} :
        LET ref_there == there[1]
            mask_there == there[2]
            grid == InputImage(o, z, shape, <<>>)
        IN  \E hdr \in HeaderZooms(grid.zooms) :
          fs = [p \in PathsUsed |->
                  IF p = InFile /\ ref_there THEN WithHeader(grid, hdr)
                  ELSE IF p = InMask /\ mask_there
                  THEN WithHeader(InputImage(o, z, shape,
                                             [i \in 1 .. VoxelCount(shape) |-> i % 2]), hdr)
                  ELSE NoFile]
    /\ fs_before = fs
    /\ ds = DsNone
    /\ other = NoOther
    /\ McIdle
    /\ RoiIdle

DsNext == DsReference \/ DsMask \/ DsAgain

SpecDs == DsInit /\ [][DsNext]_vars

\* Two invocations on different inputs that both need resampling, from the
\* same working directory or from two.
Ds2Init ==
    /\ lta_list = <<Lta(Eye3, <<0, 0, 0>>), Lta(Eye3, <<0, 0, 0>>)>>
    /\ norm_threshold = <<>>
    /\ rigid \in {R \in Rigids : R.den = 1}
    /\ CmpIdle
    /\ WfIdle
    /\ ds_args = [in_file |-> InFile, in_mask |-> InMask, zoom_th |-> <<>>]
    /\ cwd = WorkDir
    /\ other \in [on : {TRUE},
                  args : {[in_file |-> InFile2, in_mask |-> InMask2, zoom_th |-> <<>>]},
                  cwd : {WorkDir, WorkDir2},
                  call : {DsNone}]
    /\ \E o \in Orientations, z \in {<<1, 1, 1>>, <<1, 2, 4>>}, masks \in BOOLEAN :
          fs = [p \in PathsUsed |->
                  IF p = InFile THEN InputImage(o, z, <<4, 4, 2>>, <<>>)
                  ELSE IF p = InMask /\ masks
                  THEN InputImage(o, z, <<4, 4, 2>>, [i \in 1 .. 32 |-> i % 2])
                  ELSE IF p = InFile2 THEN InputImage(o, <<2, 2, 2>>, <<3, 5, 1>>, <<>>)
                  ELSE IF p = InMask2 /\ masks
                  THEN InputImage(o, <<2, 2, 2>>, <<3, 5, 1>>, [i \in 1 .. 15 |-> 1])
                  ELSE NoFile]
    /\ fs_before = fs
    /\ ds = DsNone
    /\ McIdle
    /\ RoiIdle

Ds2Next == DsReference \/ DsMask \/ OtherReference \/ OtherMask

SpecDs2 == Ds2Init /\ [][Ds2Next]_vars

SpecWf == WfInit /\ [][WfNext]_vars

\* A directory users preserved: empty, or holding for the subject the T2w
\* image, or the T2w image and the labels, of an earlier MCRIBS run.
KeptTrees(sid) ==
    LET raw == Mkdir(Going(EmptyTree), Parent(RawT2Of(sid)))
        withT2 == [raw.tree EXCEPT ![RawT2Of(sid)] = FileWith("kept t2w image")]
        seg == Mkdir(Going(withT2), Parent(TisSegOf(sid)))
        withSeg == [seg.tree EXCEPT ![TisSegOf(sid)] = FileWith("kept labels")]
    IN  { EmptyTree, withT2, withSeg }

McInit ==
    /\ lta_list = <<Lta(Eye3, <<0, 0, 0>>), Lta(Eye3, <<0, 0, 0>>)>>
    /\ norm_threshold = <<>>
    /\ rigid \in {R \in Rigids : R.den = 1}
    /\ CmpIdle
    /\ WfIdle
    /\ DsIdle
    /\ mc_inputs \in McInputs
    /\ tree \in KeptTrees(mc_inputs.subject_id)
    /\ mc = McNone
    /\ RoiIdle

McNext == McSetup \/ McAgain

SpecMc == McInit /\ [][McNext]_vars

\* The lines label files are made of: names, key-and-colour lines, with and
\* without surrounding whitespace, a key alone, a blank line, a line cut
\* short of its newline.
LineTexts ==
    { <<"CEREBELLUM_LEFT", Newline>>,
      <<Space, Tab, "THALAMUS", Space, "LEFT", Space, Newline>>,
      <<"8", Space, "230", Space, "148", Space, "34", Space, "255", Newline>>,
      <<"10", Tab, "0", Space, "118", Newline>>,
      <<"16", Newline>>,
      <<Newline>>,
      <<"26", Space, "255">> }

MaxLines == 4

RECURSIVE Flatten(_)
Flatten(texts) == IF texts = <<>> THEN <<>> ELSE Head(texts) \o Flatten(Tail(texts))

LabelTexts == { Flatten(l) : l \in UNION { [1 .. n -> LineTexts] : n \in 0 .. MaxLines } }

RoiInit ==
    /\ lta_list = <<Lta(Eye3, <<0, 0, 0>>), Lta(Eye3, <<0, 0, 0>>)>>
    /\ norm_threshold = <<>>
    /\ rigid \in {R \in Rigids : R.den = 1}
    /\ CmpIdle
    /\ WfIdle
    /\ DsIdle
    /\ McIdle
    /\ label_file \in {NoLabelFile} \cup { [exists |-> TRUE, text |-> t] : t \in LabelTexts }
    /\ roi = RoiNone

RoiNext == ParseRoiLabels

SpecRoi == RoiInit /\ [][RoiNext]_vars

-----------------------------------------------------------------------------
(* Properties of compare_xforms, stated on the inputs of the call          *)

\* The threshold in force: the caller's, or 15 when none is passed.
ThresholdInForce == IF norm_threshold = <<>> THEN 15 ELSE norm_threshold[1]

\* The affine (3 rows of 4 numbers) applied to the point p = (x, y, z).
ApplyTo(rows, p) ==
    [r \in 1 .. 3 |-> rows[r][1] * p[1] + rows[r][2] * p[2] + rows[r][3] * p[3] + rows[r][4]]

\* The midpoints of the six faces of the reference box.
FaceMidpoints ==
    { <<70, 0, 0>>, <<0, 70, 0>>, <<0, 0, 75>>, <<-70, 0, 0>>, <<0, -110, 0>>, <<0, 0, -45>> }

\* The squared distance between the refined and the baseline image of p.
MovedSq(p) ==
    LET a == ApplyTo(lta_list[1].mat.rows, p)
        b == ApplyTo(lta_list[2].mat.rows, p)
    IN  Sq(a[1] - b[1]) + Sq(a[2] - b[2]) + Sq(a[3] - b[3])

Readable(f) == f.ext \in {"mat", "lta"}

IsFinite(f) == f.mat.nan = {}

\* A 4x4 matrix is in the file (an .lta is cut to its first four lines).
FourByFour(f) ==
    /\ Len(f.mat.rows) = 4 \/ (f.ext = "lta" /\ Len(f.mat.rows) > 4)
    /\ \A r \in 1 .. Len(f.mat.rows) : Len(f.mat.rows[r]) = 4

\* Both files hold a finite 4x4 matrix: the displacement is a number.
PairMeasurable ==
    \A i \in 1 .. 2 : Readable(lta_list[i]) /\ FourByFour(lta_list[i]) /\ IsFinite(lta_list[i])

\* A valid affine: 4x4, finite, with an invertible 3x3 block.
ValidAffine(f) ==
    /\ Readable(f) /\ FourByFour(f) /\ IsFinite(f)
    /\ Det3(f.mat.rows) # 0

IsShift(f, t) == Readable(f) /\ IsFinite(f) /\ f.mat.rows = Affine(Eye3, t)

\* C1: the fallback decision is the strict comparison displacement >
\* norm_threshold: False for a threshold above the displacement, True for
\* one below it, False at equality; the threshold is the caller's argument
\* and 15 when the caller passes none.
C1_StrictThreshold ==
    cmp.state = "returned" /\ PairMeasurable =>
        LET d2 == cmp.norm.sq
            t2 == Sq(ThresholdInForce) * Sq(cmp.norm.den)
        IN  /\ ThresholdInForce < 0 => cmp.out = TRUE
            /\ ThresholdInForce >= 0 /\ t2 > d2 => cmp.out = FALSE
            /\ ThresholdInForce >= 0 /\ t2 < d2 => cmp.out = TRUE
            /\ ThresholdInForce >= 0 /\ t2 = d2 => cmp.out = FALSE

\* A call at the boundary: a displacement of 5 mm against a threshold of 5.
C1_Witness ==
    /\ cmp.state = "returned" /\ PairMeasurable
    /\ norm_threshold = <<5>> /\ cmp.norm.sq = 25 /\ cmp.norm.den = 1
    /\ cmp.out = FALSE

\* C2: the displacement is the maximum over the six face midpoints of the
\* distance between the refined and the baseline image of the point: no
\* midpoint moves further, and one midpoint moves exactly that far.
C2_MaxOverMidpoints ==
    cmp.state = "returned" /\ PairMeasurable =>
        /\ \A p \in FaceMidpoints : MovedSq(p) <= cmp.norm.sq
        /\ \E p \in FaceMidpoints : MovedSq(p) = cmp.norm.sq

\* A call in which the six midpoints do not all move equally far.
C2_Witness ==
    /\ cmp.state = "returned" /\ PairMeasurable
    /\ \E p, q \in FaceMidpoints : MovedSq(p) < MovedSq(q) /\ MovedSq(q) = cmp.norm.sq
    /\ \E p \in FaceMidpoints : MovedSq(p) > 0 /\ MovedSq(p) < cmp.norm.sq

\* C4: for the identity pair the displacement is 0 and, for every positive
\* threshold, the decision is False.
C4_IdentityPair ==
    /\ IsShift(lta_list[1], <<0, 0, 0>>) /\ IsShift(lta_list[2], <<0, 0, 0>>)
    /\ cmp.state # "idle"
    => /\ cmp.state = "returned"
       /\ ~cmp.norm.nan /\ cmp.norm.sq = 0
       /\ ThresholdInForce > 0 => cmp.out = FALSE

C4_Witness ==
    /\ IsShift(lta_list[1], <<0, 0, 0>>) /\ IsShift(lta_list[2], <<0, 0, 0>>)
    /\ cmp.state = "returned" /\ ThresholdInForce > 0 /\ cmp.out = FALSE

\* C5: with the identity as baseline and a pure translation t as refined
\* transform, every face midpoint moves by t and the displacement is |t|.
C5_PureTranslation ==
    \A t \in Shifts :
        /\ IsShift(lta_list[1], t) /\ IsShift(lta_list[2], <<0, 0, 0>>)
        /\ cmp.state # "idle"
        => /\ cmp.state = "returned" /\ ~cmp.norm.nan /\ cmp.norm.den = 1
           /\ cmp.norm.sq = Sq(t[1]) + Sq(t[2]) + Sq(t[3])
           /\ \A p \in FaceMidpoints :
                ApplyTo(lta_list[1].mat.rows, p) = <<p[1] + t[1], p[2] + t[2], p[3] + t[3]>>

C5_Witness ==
    /\ IsShift(lta_list[1], <<2, 3, 6>>) /\ IsShift(lta_list[2], <<0, 0, 0>>)
    /\ cmp.state = "returned" /\ cmp.norm.sq = 49

\* C6: composing one rigid transform on the left of both affines changes
\* neither the displacement nor the decision.
C6_RigidInvariance ==
    cmp.state = "returned" /\ cmp_moved.state # "idle" =>
        /\ cmp_moved.state = "returned"
        /\ cmp_moved.norm.nan = cmp.norm.nan
        /\ cmp_moved.norm.sq * Sq(cmp.norm.den) = cmp.norm.sq * Sq(cmp_moved.norm.den)
        /\ cmp_moved.out = cmp.out

\* Both calls made, with a rotation that is no axis permutation and a pair
\* that differs by more than a translation.
C6_Witness ==
    /\ cmp.state = "returned" /\ cmp_moved.state = "returned"
    /\ rigid.den = 5
    /\ lta_list[1] = Lta(RotZ, <<0, 0, 0>>) /\ lta_list[2] = Lta(Scale2, <<0, 0, 0>>)
    /\ cmp.norm.sq > 0 /\ cmp.out

-----------------------------------------------------------------------------
(* Properties of the workflows run with use_bbr=None                       *)

\* The builder took the branch that compares the two registrations.
Compared ==
    /\ wf.state = "built"
    /\ wf_args.use_bbr = "None" /\ wf_args.bold2anat_init # "header"

Bbreg == wf_args.builder = "init_bbreg_wf"

\* The ports holding the BBR-refined and the baseline (mri_coreg) transform.
BbrPort == IF Bbreg THEN <<"bbregister", "out_lta_file">> ELSE <<"flt_bbr", "out_matrix_file">>
BasePort == IF Bbreg THEN <<"mri_coreg", "out_lta_file">> ELSE <<"lta_to_fsl", "out_fsl">>

\* The RAS-to-RAS affine of a candidate.
RasOf(f) == IF Bbreg THEN f.mat.rows ELSE ToLta(f.mat.rows)

\* What is delivered as itk_bold_to_t1 when candidate f is the one chosen.
Delivered(f) ==
    IF Bbreg THEN Mul4(FsNativeXfm.mat.rows, f.mat.rows) ELSE ToItkFwd(f.mat.rows)

-----------------------------------------------------------------------------
(* Properties of _conditional_downsampling                                 *)

ZoomThInForce == IF ds_args.zoom_th = <<>> THEN 4 * Unit ELSE ds_args.zoom_th[1]

\* The reference image the call was given.
GivenReference == fs_before[ds_args.in_file]

\* C8: when no voxel size of the reference is finer than the threshold,
\* the call returns exactly the in_file and in_mask it was given and writes
\* no file.
C8_NoOpWhenCoarse ==
    /\ ds.pc # "idle" /\ GivenReference.exists
    /\ \A i \in Axes : GivenReference.zooms[i] >= ZoomThInForce
    => /\ ds.pc = "returned"
       /\ ds.ret = <<ds_args.in_file, ds_args.in_mask>>
       /\ fs = fs_before

\* A first call on a reference with a voxel size equal to the threshold and
\* none below it.
C8_Witness ==
    /\ ds.call = 1 /\ ds.pc = "returned"
    /\ GivenReference.zooms = <<4 * Unit, 8 * Unit, 4 * Unit>> /\ ds_args.zoom_th = <<>>
    /\ ds.ret = <<InFile, InMask>>

\* C9: a call that resamples writes a reference whose voxel size equals the
\* threshold on every axis, and a second call, on what the first returned,
\* returns its inputs unchanged.
C9_Idempotent ==
    /\ ds.pc = "returned" /\ ds.resampled
          => \A i \in Axes : fs[ds.ret[1]].zooms[i] = ZoomThInForce
    /\ ds.call = 2 /\ ds.pc # "idle"
          => /\ ds.pc = "returned" /\ ~ds.resampled
             /\ ds.ret = <<ds_args.in_file, ds_args.in_mask>>
             /\ fs = fs_before

\* C10: the mask written is binary, a voxel being 1 exactly where the
\* blurred and resampled mask is strictly greater than 0.5.
C10_BinaryMask ==
    ds.pc = "returned" /\ ds.resampled =>
        LET written == fs[ds.ret[2]]
        IN  /\ written.exists
            /\ Len(written.data) = Len(ds.float)
            /\ Len(written.data) = VoxelCount(written.shape)
            /\ \A i \in 1 .. Len(written.data) :
                  /\ written.data[i] \in {0, 1}
                  /\ written.data[i] = 1 <=> 2 * ds.float[i] > 10

\* A mask written with voxels of both values, one of which was at exactly
\* 0.5 before the binarisation.
C10_Witness ==
    /\ ds.pc = "returned" /\ ds.resampled
    /\ \E i, j \in 1 .. Len(ds.float) :
          /\ ds.float[i] = 5 /\ fs[ds.ret[2]].data[i] = 0
          /\ ds.float[j] = 6 /\ fs[ds.ret[2]].data[j] = 1

\* Twice the world coordinate of the centre of the grid of image g: its
\* affine applied to the index (shape - 1) / 2.
TwiceCentre(g) ==
    [r \in Axes |-> g.rot[r][1] * (g.shape[1] - 1) + g.rot[r][2] * (g.shape[2] - 1)
                    + g.rot[r][3] * (g.shape[3] - 1) + 2 * g.off[r]]

SameGrid(g, h) == g.shape = h.shape /\ g.rot = h.rot /\ g.off = h.off

\* C11: when the call resamples, the centre of the new grid is at the world
\* coordinate of the centre of the old grid, and the reference and the mask
\* written are on this one new grid.
C11_Recentred ==
    /\ ds.resampled /\ ds.pc \in {"reference_written", "returned"}
          => /\ fs[OutFile(cwd)].exists
             /\ TwiceCentre(fs[OutFile(cwd)]) = TwiceCentre(GivenReference)
    /\ ds.resampled /\ ds.pc = "returned"
          => /\ fs[ds.ret[1]].exists /\ fs[ds.ret[2]].exists
             /\ SameGrid(fs[ds.ret[1]], fs[ds.ret[2]])

\* A resampling that changed the shape and the origin of the grid.
C11_Witness ==
    /\ ds.call = 1 /\ ds.resampled /\ ds.pc = "returned"
    /\ fs[ds.ret[1]].shape # GivenReference.shape
    /\ fs[ds.ret[1]].off # GivenReference.off
    /\ SameGrid(fs[ds.ret[1]], fs[ds.ret[2]])

\* The call was made on a reference that could be read.
CalledOnReadable == ds.pc # "idle" /\ GivenReference.exists

HoldsOwn(args, call) ==
    call.pc = "returned" /\ call.resampled
        => /\ fs[call.ret[1]].exists /\ fs[call.ret[1]].from = args.in_file
           /\ fs[call.ret[2]].exists /\ fs[call.ret[2]].from = args.in_mask

\* A call that failed has written no file.
NothingWritten == fs = fs_before

\* C13: a call that fails, at whatever step, has written no resampled
\* reference and no resampled mask.
C13_NoPartialResult == ds.pc = "raised" => NothingWritten

\* C14: of two invocations on different inputs that both resample, in any
\* interleaving and from any working directories, each returns files that
\* hold the resampling of its own input, and the two return different files.
C14_NoSharedState ==
    /\ HoldsOwn(ds_args, ds)
    /\ other.on => HoldsOwn(other.args, other.call)
    /\ other.on /\ ds.pc = "returned" /\ other.call.pc = "returned"
       /\ ds.resampled /\ other.call.resampled
          => ds.ret[1] # other.call.ret[1] /\ ds.ret[2] # other.call.ret[2]

-----------------------------------------------------------------------------
(* Properties of the graphs the builders return                            *)

Fsl == wf_args.builder = "init_fsl_bbr_wf"

HasNode(n) == n \in NodesOf(wf.edges)

HasEdge(a, af, b, bf) == <<a, af, b, bf>> \in wf.edges

\* The fallback output is the constant v set at build time.
FallbackFixed(v) ==
    /\ <<"outputnode", "fallback", v>> \in wf.fixed
    /\ \A e \in wf.edges : ~(e[3] = "outputnode" /\ e[4] = "fallback")

\* The nodes from which node n is reached along the edges.
RECURSIVE Upstream(_, _)
Upstream(nodes, k) ==
    IF k = 0 THEN nodes
    ELSE Upstream(nodes \cup {e[1] : e \in {x \in wf.edges : x[3] \in nodes}}, k - 1)

FeedsOutput == Upstream({"outputnode"}, Cardinality(NodesOf(wf.edges)))

\* The transform file handed to the node that makes the output transforms.
TransformUsed ==
    IF Bbreg THEN In("merge_ltas", "in1").files ELSE In("fsl2itk_fwd", "transform_file").files

\* What is delivered as itk_t1_to_bold when candidate f is the one chosen.
DeliveredInv(f) ==
    IF Bbreg THEN Inv4(Mul4(FsNativeXfm.mat.rows, f.mat.rows))
    ELSE ToItkInv(Inv4(f.mat.rows))

\* The two output transforms are those made from candidate f.
OutputsFrom(f) ==
    /\ out[<<"outputnode", "itk_bold_to_t1">>].files
         = <<Written("itk", Delivered(f), IF Bbreg THEN "concat_xfm" ELSE "fsl2itk_fwd")>>
    /\ out[<<"outputnode", "itk_t1_to_bold">>].files
         = <<Written("itk", DeliveredInv(f), IF Bbreg THEN "concat_xfm" ELSE "fsl2itk_inv")>>

BuiltWith(use_bbr) ==
    /\ (Bbreg \/ Fsl) /\ wf.state = "built"
    /\ wf_args.use_bbr = use_bbr /\ wf_args.bold2anat_init # "header"

C17_HeaderInit ==
    /\ Bbreg /\ wf_args.bold2anat_init = "header" /\ wf_args.bold2anat_dof \in AffineDOF
    /\ wf.state # "unbuilt"
    => IF wf_args.use_bbr = "False"
       THEN wf.state = "raised" /\ wf.err = "ValueError" /\ wf.edges = {}
       ELSE /\ wf.state = "built"
            /\ ~HasNode("mri_coreg") /\ ~HasNode("compare_transforms")
            /\ HasNode("bbregister")
            /\ <<"bbregister", "init", "header">> \in wf.fixed
            /\ \A e \in wf.edges : ~(e[3] = "bbregister" /\ e[4] = "init_reg_file")
            /\ FallbackFixed("False")
            /\ "outputnode" \in ran =>
                  /\ out[<<"outputnode", "fallback">>] = FlagVal(FALSE)
                  /\ OutputsFrom(out[<<"bbregister", "out_lta_file">>].files[1])

\* A run of the graph built with the header initialisation and use_bbr=None.
C17_Witness ==
    /\ Bbreg /\ wf_args.bold2anat_init = "header" /\ wf_args.use_bbr = "None"
    /\ wf.state = "built" /\ "outputnode" \in ran
    /\ TransformUsed[1].by = "bbregister"

ValidArgs(builder) ==
    /\ wf_args.bold2anat_dof \in AffineDOF
    /\ wf_args.bold2anat_init \in RegistrationInit
    /\ wf_args.bold2anat_init = "header"
          => builder = "init_bbreg_wf" /\ wf_args.use_bbr # "False"

\* C19: for every valid combination of arguments init_bold_reg_wf returns
\* a workflow, which wraps the graph of init_bbreg_wf when freesurfer is
\* True and that of init_fsl_bbr_wf when it is False, the builder being
\* given every argument it requires.
C19_WrapsBuilder ==
    LET builder == IF wf_args.freesurfer THEN "init_bbreg_wf" ELSE "init_fsl_bbr_wf"
        inner == IF wf_args.freesurfer THEN init_bbreg_wf(wf_args)
                 ELSE init_fsl_bbr_wf(wf_args)
    IN  /\ wf_args.builder = "init_bold_reg_wf" /\ wf.state # "unbuilt"
        /\ ValidArgs(builder)
        => /\ wf.state = "built"
           /\ inner.edges \subseteq wf.edges
           /\ Required[builder] \subseteq Passed[builder]

-----------------------------------------------------------------------------
(* Properties of _setup_directory_structure                                *)

Present(p) == tree[p].kind # "absent"

\* C20: after the function returns for a subject sid, a segmentation file
\* being given and surfrecon enabled, the tree of the docstring is there
\* under mcribs_dir/sid: RawT2/sid.nii.gz holding the T2w image given,
\* SurfReconDeformable/sid/temp/t2w-image.nii.gz, TissueSeg/sid_all_labels
\* holding the segmentation given, its _manedit companion, and
\* TissueSegDrawEM/sid/N4/sid.nii.gz.
C20_DocumentedTree ==
    LET sid == mc_inputs.subject_id
    IN  mc.pc = "returned" /\ mc_inputs.segmentation_file # <<>> /\ mc_inputs.surfrecon
        => /\ tree[RawT2Of(sid)] = FileWith(mc_inputs.t2w_file)
           /\ Present(SurfRecOf(sid))
           /\ tree[TisSegOf(sid)] = FileWith(mc_inputs.segmentation_file[1])
           /\ Present(ManEditOf(sid))
           /\ Present(DrawEMOf(sid))

-----------------------------------------------------------------------------
(* Properties of parse_roi_labels                                          *)

\* lines is the text cut into lines: put end to end they give the text, no
\* line is empty, a newline is only ever the last piece of a line, and
\* every line but the last ends with one.
IsLineSplit(lines, text) ==
    /\ Flatten(lines) = text
    /\ \A k \in 1 .. Len(lines) :
          /\ lines[k] # <<>>
          /\ \A j \in 1 .. Len(lines[k]) - 1 : lines[k][j] # Newline
          /\ k < Len(lines) => lines[k][Len(lines[k])] = Newline

\* name is line without the whitespace at its two ends.
IsStripped(name, line) ==
    /\ name # <<>> => name[1] \notin Whitespace /\ name[Len(name)] \notin Whitespace
    /\ \E i \in 1 .. Len(line) + 1 :
          /\ name = SubSeq(line, i, i + Len(name) - 1)
          /\ \A j \in 1 .. Len(line) :
                (j < i \/ j >= i + Len(name)) => line[j] \in Whitespace

\* key is what line holds before its first space.
IsFirstToken(key, line) ==
    /\ Len(key) <= Len(line)
    /\ key = SubSeq(line, 1, Len(key))
    /\ \A j \in 1 .. Len(key) : key[j] # Space
    /\ Len(key) < Len(line) => line[Len(key) + 1] = Space

\* C21: on a label file with an odd number of lines parse_roi_labels raises
\* RuntimeError; on one of 2n lines it returns two lists of length n, in
\* file order: the i-th structure name is line 2i (counted from 0) without
\* its surrounding whitespace, the i-th label key is what line 2i+1 holds
\* before its first space.
C21_ParseRoiLabels ==
    roi.pc # "idle" /\ label_file.exists =>
        LET lines == ReadLines(label_file.text)
            n == Len(lines) \div 2
        IN  /\ IsLineSplit(lines, label_file.text)
            /\ Len(lines) % 2 = 1
                  => /\ roi.pc = "raised" /\ roi.err = "RuntimeError"
                     /\ roi.structs = <<>> /\ roi.label_ids = <<>>
            /\ Len(lines) % 2 = 0
                  => /\ roi.pc = "returned"
                     /\ Len(roi.structs) = n /\ Len(roi.label_ids) = n
                     /\ \A i \in 1 .. n :
                           /\ IsStripped(roi.structs[i], lines[2 * i - 1])
                           /\ IsFirstToken(roi.label_ids[i], lines[2 * i])

\* A file of two pairs, the second name written with whitespace around it
\* and the second key followed by a tab, parsed in file order.
C21_Witness ==
    /\ roi.pc = "returned"
    /\ roi.structs = << <<"CEREBELLUM_LEFT">>, <<"THALAMUS", Space, "LEFT">> >>
    /\ roi.label_ids = << <<"8">>, <<"10", Tab, "0">> >>

-----------------------------------------------------------------------------
(* The sloppy switch of init_fsl_bbr_wf                                    *)

\* C22: in a graph init_fsl_bbr_wf builds with use_bbr not False, the
\* reference and wm_seg inputs of flt_bbr have one source each and no
\* constant: out_file and out_mask of downsample when sloppy is True, the
\* output of mask_t1w_brain and that of wm_mask when it is not, in which
\* case the graph has no downsample node; with use_bbr=False the graph is
\* the one built with the other value of sloppy.
C22_SloppySources ==
    Fsl /\ wf.state = "built" =>
        /\ wf_args.use_bbr # "False" =>
              /\ FixedOf("flt_bbr", "reference") = {} /\ FixedOf("flt_bbr", "wm_seg") = {}
              /\ wf_args.sloppy =>
                    /\ Sources("flt_bbr", "reference")
                         = {Edge("downsample", "out_file", "flt_bbr", "reference")}
                    /\ Sources("flt_bbr", "wm_seg")
                         = {Edge("downsample", "out_mask", "flt_bbr", "wm_seg")}
                    /\ Sources("downsample", "in_file")
                         = {Edge("mask_t1w_brain", "out_file", "downsample", "in_file")}
                    /\ Sources("downsample", "in_mask")
                         = {Edge("wm_mask", "out", "downsample", "in_mask")}
              /\ ~wf_args.sloppy =>
                    /\ Sources("flt_bbr", "reference")
                         = {Edge("mask_t1w_brain", "out_file", "flt_bbr", "reference")}
                    /\ Sources("flt_bbr", "wm_seg")
                         = {Edge("wm_mask", "out", "flt_bbr", "wm_seg")}
                    /\ ~HasNode("downsample")
        /\ wf_args.use_bbr = "False" =>
              /\ wf = init_fsl_bbr_wf([wf_args EXCEPT !.sloppy = ~wf_args.sloppy])
              /\ ~HasNode("downsample") /\ ~HasNode("flt_bbr")

\* A sloppy FSL graph built with use_bbr=None in which flt_bbr has run on
\* what downsample gave it.
C22_Witness ==
    /\ Fsl /\ wf.state = "built"
    /\ wf_args.sloppy /\ wf_args.use_bbr = "None"
    /\ {"downsample", "flt_bbr"} \subseteq ran

====
